---- MODULE Spec2Model ----
(***************************************************************************)
(* Model of src/app.py, the EV station placement dashboard: one run of the *)
(* script is a display pass  load -> score -> filter -> KPIs -> maps and   *)
(* charts -> recommended-stations table -> CSV download.                   *)
(*                                                                         *)
(* A data frame is a sequence of rows; a row is a record that carries its  *)
(* pandas index label (idx, the RangeIndex of read_csv) and the columns    *)
(* the script computes with.  Latitude, Longitude, Station ID and Station  *)
(* Operator are only passed through to the display and are left out.      *)
(*                                                                         *)
(* Floating-point values are modelled as exact fractions <<num, den>> in   *)
(* lowest terms; <<0, 0>> is NaN, the result of the float division 0/0.    *)
(***************************************************************************)
EXTENDS Integers, Sequences, FiniteSets, TLC

VARIABLES
    df,                  \* the global data frame (lines 12, 24, 32)
    address_filter,      \* the four sidebar selections (lines 39-57)
    charger_filter,
    availability_filter,
    renewable_filter,
    df_filtered,         \* lines 60-72
    metrics,             \* col1..col5 (lines 81-98)
    warning,             \* st.warning shown (line 99)
    rendered,            \* the map and chart sections drawn so far (lines 107-211)
    markers,             \* the circle markers of the clustered map (lines 116-140)
    optimal_stations,    \* the recommended-stations table (lines 222-234)
    csv,                 \* the data of the download button (lines 241-248)
    pc                   \* the position of the script

vars == <<df, address_filter, charger_filter, availability_filter,
          renewable_filter, df_filtered, metrics, warning, rendered,
          markers, optimal_stations, csv, pc>>

----------------------------------------------------------------------------
(* Bounds of the model *)

\* longest data frame of the scoring-only specification
MaxScoreRows == 3
\* largest value of "Usage Stats (avg users/day)" in the scoring-only specification
MaxUsage == 2
\* longest data frame drawn from the station catalogue
MaxRows == 3
\* longest data frame drawn from the two bulk stations
MaxBulkRows == 10
\* largest factor the usage column is scaled by
MaxScale == 3

----------------------------------------------------------------------------
(* Floats as fractions *)

NaN == <<0, 0>>

RECURSIVE GCD(_, _)
GCD(a, b) == IF b = 0 THEN a ELSE GCD(b, a % b)

\* the float n/d for integers n >= 0, d >= 0; 0/0 is NaN.  (n/0 with n > 0
\* is inf in pandas; it is not needed here: a divisor is a column maximum,
\* and a maximum of 0 over non-negative values makes every dividend 0.)
Frac(n, d) ==
    IF d = 0 THEN NaN
    ELSE LET g == GCD(n, d) IN <<n \div g, d \div g>>

IsNaN(x) == x[2] = 0

FAdd(x, y) ==
    IF IsNaN(x) \/ IsNaN(y) THEN NaN
    ELSE Frac(x[1] * y[2] + y[1] * x[2], x[2] * y[2])

\* x - y, used only where x >= y
FSub(x, y) ==
    IF IsNaN(x) \/ IsNaN(y) THEN NaN
    ELSE Frac(x[1] * y[2] - y[1] * x[2], x[2] * y[2])

FMul(x, y) ==
    IF IsNaN(x) \/ IsNaN(y) THEN NaN
    ELSE Frac(x[1] * y[1], x[2] * y[2])

\* IEEE comparisons: every comparison with NaN is false
FGe(x, y) == ~IsNaN(x) /\ ~IsNaN(y) /\ x[1] * y[2] >= y[1] * x[2]
FGt(x, y) == ~IsNaN(x) /\ ~IsNaN(y) /\ x[1] * y[2] > y[1] * x[2]

Zero == <<0, 1>>
One == <<1, 1>>

----------------------------------------------------------------------------
(* The data *)

RawColumns == {"idx", "Address", "ChargerType", "Availability", "Renewable",
               "Cost", "Usage", "Capacity", "Distance"}

\* one station of the CSV file, before read_csv gives it an index label
Station(a, c, v, r, u, d) ==
    [Address |-> a, ChargerType |-> c, Availability |-> v, Renewable |-> r,
     Cost |-> 30, Usage |-> u, Capacity |-> 50, Distance |-> d]

\* the values of "Distance to City (km)" in the scoring-only specification
Distances == {0, 1}

\* stations that differ in usage, distance and energy source only
ScoreStations ==
    { Station("A1", "AC Level 2", "24/7", r, u, d) :
        r \in {"Yes", "No"}, u \in 0..MaxUsage, d \in Distances }

\* a small catalogue of stations that differ in every column
StationCatalogue ==
    { Station("A1", "AC Level 2", "24/7", "Yes", 1, 1),
      Station("A2", "DC Fast Charger", "24/7", "No", 2, 2),
      Station("A1", "DC Fast Charger", "9:00-18:00", "No", 0, 0) }

\* two stations that differ in usage and energy source, for long data frames
BulkStations ==
    { Station("A1", "AC Level 2", "24/7", "Yes", 1, 1),
      Station("A1", "AC Level 2", "24/7", "No", 2, 1) }

\* pd.read_csv: the rows of the file in file order, labelled 0, 1, 2, ...
ReadCsv(file) ==
    [i \in 1..Len(file) |-> [idx |-> i - 1] @@ file[i]]

Files(stations, maxLen) ==
    UNION { [1..n -> stations] : n \in 1..maxLen }

ScoreDatasets == { ReadCsv(f) : f \in Files(ScoreStations, MaxScoreRows) }

Datasets ==
    { ReadCsv(f) : f \in Files(StationCatalogue, MaxRows)
                         \cup Files(BulkStations, MaxBulkRows) }

----------------------------------------------------------------------------
(* Recommendation model, lines 18-32 *)

\* Series.max()
ColMax(frame, col) ==
    CHOOSE m \in { frame[i][col] : i \in DOMAIN frame } :
        \A i \in DOMAIN frame : frame[i][col] <= m

\* the weights 0.5, 0.3, 0.2 of lines 25-27 and the quantile 0.75 of line 31
W_USAGE == <<1, 2>>
W_DISTANCE == <<3, 10>>
W_RENEWABLE == <<1, 5>>
QUANTILE == <<3, 4>>

\* faulty variant: normalised by a fixed scale instead of the column maximum
usage_score_fixed(frame) ==
    [i \in DOMAIN frame |-> Frac(frame[i].Usage, MaxUsage + 1)]

\* line 19
usage_score(frame) ==
    LET m == ColMax(frame, "Usage")
    IN  [i \in DOMAIN frame |-> Frac(frame[i].Usage, m)]

\* line 20
distance_score(frame) ==
    LET m == ColMax(frame, "Distance")
    IN  [i \in DOMAIN frame |-> FSub(One, Frac(frame[i].Distance, m))]

\* line 21
renewable_score(frame) ==
    [i \in DOMAIN frame |-> IF frame[i].Renewable = "Yes" THEN 1 ELSE 0]

\* lines 24-28
RecommendationScore(frame) ==
    LET us == usage_score(frame)
        ds == distance_score(frame)
        rs == renewable_score(frame)
    IN  [i \in DOMAIN frame |->
            FAdd(FAdd(FMul(W_USAGE, us[i]), FMul(W_DISTANCE, ds[i])),
                 FMul(W_RENEWABLE, Frac(rs[i], 1)))]

\* ascending sort of a sequence of non-NaN floats
RECURSIVE SortAsc(_)
SortAsc(s) ==
    IF s = <<>> THEN <<>>
    ELSE LET v == Head(s)
             rest == SortAsc(Tail(s))
         IN  SelectSeq(rest, LAMBDA x : FGt(v, x)) \o <<v>>
               \o SelectSeq(rest, LAMBDA x : ~FGt(v, x))

\* faulty variant: interpolation "lower", the value at the floor of the position
Quantile_lower(values, q) ==
    LET sorted == SortAsc(SelectSeq(values, LAMBDA x : ~IsNaN(x)))
        m == Len(sorted)
    IN  IF m = 0 THEN NaN ELSE sorted[(q[1] * (m - 1)) \div q[2] + 1]

\* Series.quantile(q), interpolation "linear": NaN values are skipped, the
\* rest is sorted ascending and interpolated at position q * (m - 1)
Quantile(values, q) ==
    LET sorted == SortAsc(SelectSeq(values, LAMBDA x : ~IsNaN(x)))
        m == Len(sorted)
    IN  IF m = 0 THEN NaN
        ELSE LET lo == (q[1] * (m - 1)) \div q[2]
                 fraction == Frac((q[1] * (m - 1)) % q[2], q[2])
                 hi == IF lo + 1 < m THEN lo + 1 ELSE lo
             IN  FAdd(sorted[lo + 1],
                      FMul(fraction, FSub(sorted[hi + 1], sorted[lo + 1])))

\* faulty variant: > in place of >=
OptimalFlag_strict(score, threshold) == IF FGt(score, threshold) THEN 1 ELSE 0

\* line 32: (score >= threshold).astype(int)
OptimalFlag(score, threshold) == IF FGe(score, threshold) THEN 1 ELSE 0

\* lines 19-32: the frame with its two derived columns
ScoredFrame(frame) ==
    LET score == RecommendationScore(frame)
        threshold == Quantile(score, QUANTILE)
    IN  [i \in DOMAIN frame |->
            [Score |-> score[i], Optimal |-> OptimalFlag(score[i], threshold)]
              @@ frame[i]]

Unset ==
    /\ address_filter = {}
    /\ charger_filter = {}
    /\ availability_filter = {}
    /\ renewable_filter = {}
    /\ df_filtered = <<>>
    /\ metrics = <<>>
    /\ warning = FALSE
    /\ rendered = <<>>
    /\ markers = <<>>
    /\ optimal_stations = <<>>
    /\ csv = <<>>

\* line 12 has run
Init ==
    /\ df \in Datasets
    /\ Unset
    /\ pc = "score"

InitScore ==
    /\ df \in ScoreDatasets
    /\ Unset
    /\ pc = "score"

Score ==
    /\ pc = "score"
    /\ df' = ScoredFrame(df)
    /\ pc' = "filter"
    /\ UNCHANGED <<address_filter, charger_filter, availability_filter,
                   renewable_filter, df_filtered, metrics, warning, rendered,
                   markers, optimal_stations, csv>>

NextScore == Score

\* the scoring pass alone (lines 12-32) over every small data frame
SpecScore == InitScore /\ [][NextScore]_vars

----------------------------------------------------------------------------
(* Sidebar filters, lines 37-72 *)

\* the options of a multiselect: sorted(df[col].unique())
Unique(frame, col) == { frame[i][col] : i \in DOMAIN frame }

\* frame[frame[col].isin(selection)]
IsIn(frame, col, selection) ==
    SelectSeq(frame, LAMBDA row : row[col] \in selection)

\* faulty variant: a row passes when any one selection holds its value
FilterFrame_any(frame, af, cf, vf, rf) ==
    IF af = {} /\ cf = {} /\ vf = {} /\ rf = {} THEN frame
    ELSE SelectSeq(frame, LAMBDA row :
            \/ row.Address \in af
            \/ row.ChargerType \in cf
            \/ row.Availability \in vf
            \/ row.Renewable \in rf)

\* faulty variant: the filtered rows are scored again, over the filtered rows alone
FilterFrame_rescored(frame, af, cf, vf, rf) ==
    LET f1 == IF af # {} THEN IsIn(frame, "Address", af) ELSE frame
        f2 == IF cf # {} THEN IsIn(f1, "ChargerType", cf) ELSE f1
        f3 == IF vf # {} THEN IsIn(f2, "Availability", vf) ELSE f2
        f4 == IF rf # {} THEN IsIn(f3, "Renewable", rf) ELSE f3
    IN  IF f4 = <<>> THEN f4 ELSE ScoredFrame(f4)

\* lines 60-72: an empty selection is falsy and leaves the frame alone
FilterFrame(frame, af, cf, vf, rf) ==
    LET f1 == IF af # {} THEN IsIn(frame, "Address", af) ELSE frame
        f2 == IF cf # {} THEN IsIn(f1, "ChargerType", cf) ELSE f1
        f3 == IF vf # {} THEN IsIn(f2, "Availability", vf) ELSE f2
    IN  IF rf # {} THEN IsIn(f3, "Renewable", rf) ELSE f3

ApplyFilters ==
    /\ pc = "filter"
    /\ \E af \in SUBSET Unique(df, "Address"),
          cf \in SUBSET Unique(df, "ChargerType"),
          vf \in SUBSET Unique(df, "Availability"),
          rf \in SUBSET Unique(df, "Renewable") :
            /\ address_filter' = af
            /\ charger_filter' = cf
            /\ availability_filter' = vf
            /\ renewable_filter' = rf
            /\ df_filtered' = FilterFrame(df, af, cf, vf, rf)
    /\ pc' = "kpis"
    /\ UNCHANGED <<df, metrics, warning, rendered, markers,
                   optimal_stations, csv>>

----------------------------------------------------------------------------
(* KPIs, lines 77-102 *)

RECURSIVE ColSum(_, _)
ColSum(frame, col) ==
    IF frame = <<>> THEN 0 ELSE Head(frame)[col] + ColSum(Tail(frame), col)

\* Series.mean() of a non-empty integer column
Mean(frame, col) == Frac(ColSum(frame, col), Len(frame))

\* round(x, 2) of a non-NaN x >= 0, in hundredths: to nearest, ties to even
Round2(x) ==
    LET n == 100 * x[1]
        q == n \div x[2]
        r == n % x[2]
    IN  IF 2 * r > x[2] THEN q + 1
        ELSE IF 2 * r < x[2] THEN q
        ELSE IF q % 2 = 0 THEN q ELSE q + 1

\* value_counts().get("Yes", 0)
CountYes(frame) == Len(SelectSeq(frame, LAMBDA row : row.Renewable = "Yes"))

Placeholder == [text |-> "-"]

\* lines 81-99
KpiMetrics(frame) ==
    IF frame # <<>>
    THEN [col1 |-> [count |-> Len(frame)],
          col2 |-> [hundredths |-> Round2(Mean(frame, "Cost"))],
          col3 |-> [hundredths |-> Round2(Mean(frame, "Usage"))],
          col4 |-> [hundredths |-> Round2(Mean(frame, "Capacity"))],
          col5 |-> [percent |-> Round2(Frac(CountYes(frame) * 100, Len(frame)))]]
    ELSE [col1 |-> [count |-> Len(frame)],
          col2 |-> Placeholder,
          col3 |-> Placeholder,
          col4 |-> Placeholder,
          col5 |-> Placeholder]

\* faulty variant: the run goes on to the map with nothing to show
AfterKpis_nostop(frame) == "map"

\* lines 101-102: st.stop() ends the run when nothing is left to show
AfterKpis(frame) == IF frame = <<>> THEN "stopped" ELSE "map"

\* lines 77-102: the KPI row, the warning and st.stop()
KPIs ==
    /\ pc = "kpis"
    /\ metrics' = KpiMetrics(df_filtered)
    /\ warning' = (df_filtered = <<>>)
    /\ pc' = AfterKpis(df_filtered)
    /\ UNCHANGED <<df, address_filter, charger_filter, availability_filter,
                   renewable_filter, df_filtered, rendered, markers,
                   optimal_stations, csv>>

----------------------------------------------------------------------------
(* Maps and charts, lines 107-211 *)

\* lines 126-130: the popup's score and status and the marker's colour
Marker(row) ==
    [idx |-> row.idx,
     score |-> IF IsNaN(row.Score) THEN [text |-> "nan"]
               ELSE [hundredths |-> Round2(row.Score)],
     status |-> IF row.Optimal = 1 THEN "Recommended" ELSE "Existing",
     color |-> IF row.Optimal = 1 THEN "green" ELSE "blue"]

\* lines 107-142
ClusteredMap ==
    /\ pc = "map"
    /\ markers' = [i \in DOMAIN df_filtered |-> Marker(df_filtered[i])]
    /\ rendered' = Append(rendered, "map")
    /\ pc' = "charts"
    /\ UNCHANGED <<df, address_filter, charger_filter, availability_filter,
                   renewable_filter, df_filtered, metrics, warning,
                   optimal_stations, csv>>

\* lines 147-211: heatmap, scatter plot, pie chart and bar chart show
\* df_filtered as it is
Charts ==
    /\ pc = "charts"
    /\ rendered' = rendered \o <<"heatmap", "scatter", "pie", "bar">>
    /\ pc' = "table"
    /\ UNCHANGED <<df, address_filter, charger_filter, availability_filter,
                   renewable_filter, df_filtered, metrics, warning, markers,
                   optimal_stations, csv>>

----------------------------------------------------------------------------
(* Recommended stations table, lines 217-234 *)

\* the fraction 0.25 of line 220
TOP_FRACTION == <<1, 4>>

\* faulty variant: the count rounded up
TopN_ceil(n) ==
    LET k == (n * TOP_FRACTION[1] + TOP_FRACTION[2] - 1) \div TOP_FRACTION[2]
    IN  IF k > 1 THEN k ELSE 1

\* line 220: max(1, int(len(df_filtered) * 0.25))
TopN(n) ==
    LET k == (n * TOP_FRACTION[1]) \div TOP_FRACTION[2]
    IN  IF k > 1 THEN k ELSE 1

\* faulty variant: a sort that puts the later of two equal scores first
RECURSIVE SortDesc_unstable(_)
SortDesc_unstable(frame) ==
    IF frame = <<>> THEN <<>>
    ELSE LET row == Head(frame)
             rest == SortDesc_unstable(Tail(frame))
         IN  SelectSeq(rest, LAMBDA x : ~FGt(row.Score, x.Score)) \o <<row>>
               \o SelectSeq(rest, LAMBDA x : FGt(row.Score, x.Score))

\* stable sort by Score, descending (mergesort of the negated column)
RECURSIVE SortDesc(_)
SortDesc(frame) ==
    IF frame = <<>> THEN <<>>
    ELSE LET row == Head(frame)
             rest == SortDesc(Tail(frame))
         IN  SelectSeq(rest, LAMBDA x : FGt(x.Score, row.Score)) \o <<row>>
               \o SelectSeq(rest, LAMBDA x : ~FGt(x.Score, row.Score))

Take(s, n) == SubSeq(s, 1, IF n < Len(s) THEN n ELSE Len(s))

\* DataFrame.nlargest(n, "Recommendation Score"), keep="first": the rows
\* without NaN sorted, then the NaN rows in frame order, cut to n rows
NLargest(n, frame) ==
    LET dropped == SelectSeq(frame, LAMBDA row : ~IsNaN(row.Score))
        nan_rows == SelectSeq(frame, LAMBDA row : IsNaN(row.Score))
    IN  Take(SortDesc(dropped) \o nan_rows, n)

\* lines 217-234
RecommendedTable ==
    /\ pc = "table"
    /\ optimal_stations' = NLargest(TopN(Len(df_filtered)), df_filtered)
    /\ pc' = "download"
    /\ UNCHANGED <<df, address_filter, charger_filter, availability_filter,
                   renewable_filter, df_filtered, metrics, warning, rendered,
                   markers, csv>>

----------------------------------------------------------------------------
(* Download, lines 239-248 *)

\* to_csv(index=False): every column but the index
ToCsv(frame) ==
    [i \in DOMAIN frame |->
        [c \in (DOMAIN frame[i]) \ {"idx"} |-> frame[i][c]]]

Download ==
    /\ pc = "download"
    /\ csv' = ToCsv(df_filtered)
    /\ pc' = "done"
    /\ UNCHANGED <<df, address_filter, charger_filter, availability_filter,
                   renewable_filter, df_filtered, metrics, warning, rendered,
                   markers, optimal_stations>>

\* the columns of the file, without the derived ones
Raw(frame) ==
    [i \in DOMAIN frame |-> [c \in RawColumns |-> frame[i][c]]]

\* the script runs again from line 12 on the next interaction: the file is
\* read afresh and nothing of the last pass is kept
Rerun ==
    /\ pc \in {"stopped", "done"}
    /\ df' = Raw(df)
    /\ address_filter' = {}
    /\ charger_filter' = {}
    /\ availability_filter' = {}
    /\ renewable_filter' = {}
    /\ df_filtered' = <<>>
    /\ metrics' = <<>>
    /\ warning' = FALSE
    /\ rendered' = <<>>
    /\ markers' = <<>>
    /\ optimal_stations' = <<>>
    /\ csv' = <<>>
    /\ pc' = "score"

Next ==
    \/ Score
    \/ ApplyFilters
    \/ KPIs
    \/ ClusteredMap
    \/ Charts
    \/ RecommendedTable
    \/ Download
    \/ Rerun

\* the whole display pass
Spec == Init /\ [][Next]_vars

----------------------------------------------------------------------------
(* Properties *)

Scored == pc # "score"
Filtered == pc \notin {"score", "filter"}
KpisShown == pc \notin {"score", "filter", "kpis"}
TableShown == pc \in {"download", "done"}

Scores(frame) == [i \in DOMAIN frame |-> frame[i].Score]
AllNaN(frame) == \A i \in DOMAIN frame : IsNaN(frame[i].Score)
NoNaN(frame) == \A i \in DOMAIN frame : ~IsNaN(frame[i].Score)

\* C1: in every non-empty data frame with usage and distance >= 0, every
\* Recommendation Score lies in [0, 1].
C1_ScoreInUnitInterval ==
    Scored =>
        \A i \in DOMAIN df :
            FGe(df[i].Score, Zero) /\ FGe(One, df[i].Score)

\* the value of rank k (from 0) of the scores in ascending order, by counting
Kth(s, k) ==
    CHOOSE v \in { s[j] : j \in DOMAIN s } :
        /\ Cardinality({ j \in DOMAIN s : FGt(v, s[j]) }) <= k
        /\ k < Cardinality({ j \in DOMAIN s : FGe(v, s[j]) })

\* C2: when the scoring pass has run, a row has Optimal = 1 iff its score is
\* >= the threshold, the linear interpolation at rank 0.75 * (n - 1) of the
\* ascending scores of all rows; every other row has Optimal = 0.
C2_OptimalIffAtLeastThreshold ==
    pc = "filter" =>
        LET n == Len(df)
            s == Scores(df)
            lo == (3 * (n - 1)) \div 4
            w == (3 * (n - 1)) % 4
            hi == IF lo + 1 <= n - 1 THEN lo + 1 ELSE n - 1
        IN  /\ \A i \in DOMAIN df : df[i].Optimal \in {0, 1}
            /\ IF AllNaN(df)
               THEN \A i \in DOMAIN df : df[i].Optimal = 0
               ELSE \A i \in DOMAIN df :
                      df[i].Optimal = 1 <=>
                        FGe(FMul(<<4, 1>>, s[i]),
                            FAdd(FMul(<<4 - w, 1>>, Kth(s, lo)),
                                 FMul(<<w, 1>>, Kth(s, hi))))

\* the threshold lies strictly between two scores and splits the rows
C2_Witness ==
    /\ pc = "filter"
    /\ Len(df) >= 4
    /\ NoNaN(df)
    /\ \E i, j \in DOMAIN df : df[i].Optimal = 1 /\ df[j].Optimal = 0
    /\ \A i \in DOMAIN df :
          df[i].Score # Quantile(Scores(df), QUANTILE)

\* C3 as stated: the table has exactly 3 rows for 10 filtered rows and
\* exactly 1 row for 1 filtered row.
C3_ThreeOfTen ==
    TableShown =>
        /\ Len(df_filtered) = 10 => Len(optimal_stations) = 3
        /\ Len(df_filtered) = 1 => Len(optimal_stations) = 1

\* C3 amended: the table has exactly 2 rows for 10 filtered rows and
\* exactly 1 row for 1 filtered row.
C3_TwoOfTen ==
    TableShown =>
        /\ Len(df_filtered) = 10 => Len(optimal_stations) = 2
        /\ Len(df_filtered) = 1 => Len(optimal_stations) = 1

C3_Witness ==
    /\ TableShown
    /\ Len(df_filtered) = 10
    /\ Len(optimal_stations) = 2

\* C4: the table is the first k = max(1, floor(n * 0.25)) rows of the
\* filtered rows in descending score order, equal scores in input order, and
\* no row outside the table has a greater score than a row inside it.
C4_TableIsStableTopK ==
    TableShown =>
        LET f == df_filtered
            t == optimal_stations
            k == IF Len(f) \div 4 >= 1 THEN Len(f) \div 4 ELSE 1
            Outside(row) == \A p \in DOMAIN t : t[p].idx # row.idx
        IN  /\ Len(t) = k
            /\ \A p \in DOMAIN t : \E j \in DOMAIN f : f[j] = t[p]
            /\ \A p, q \in DOMAIN t :
                  p < q =>
                    /\ ~FGt(t[q].Score, t[p].Score)
                    /\ ~FGt(t[p].Score, t[q].Score) => t[p].idx < t[q].idx
            /\ \A j \in DOMAIN f, p \in DOMAIN t :
                  Outside(f[j]) =>
                    /\ ~FGt(f[j].Score, t[p].Score)
                    /\ ~FGt(t[p].Score, f[j].Score) => t[p].idx < f[j].idx

\* two different scores in the table, and a row of the table tied with a
\* row left out
C4_Witness ==
    /\ TableShown
    /\ Len(optimal_stations) >= 2
    /\ \E p \in DOMAIN optimal_stations, j \in DOMAIN df_filtered :
          /\ \A q \in DOMAIN optimal_stations :
                optimal_stations[q].idx # df_filtered[j].idx
          /\ optimal_stations[p].Score = df_filtered[j].Score
    /\ \E p, q \in DOMAIN optimal_stations :
          FGt(optimal_stations[p].Score, optimal_stations[q].Score)

\* the row passes every non-empty selection
Selected(row) ==
    /\ address_filter # {} => row.Address \in address_filter
    /\ charger_filter # {} => row.ChargerType \in charger_filter
    /\ availability_filter # {} => row.Availability \in availability_filter
    /\ renewable_filter # {} => row.Renewable \in renewable_filter

\* C5: the filtered collection is exactly the rows of the data frame, in
\* original order, that pass every non-empty selection; with all four
\* selections empty it is the whole data frame.
C5_FilterIsConjunction ==
    Filtered =>
        /\ \A p \in DOMAIN df_filtered :
              /\ Selected(df_filtered[p])
              /\ \E i \in DOMAIN df : df[i] = df_filtered[p]
        /\ \A i \in DOMAIN df :
              Selected(df[i]) => \E p \in DOMAIN df_filtered : df_filtered[p] = df[i]
        /\ \A p, q \in DOMAIN df_filtered :
              p < q => df_filtered[p].idx < df_filtered[q].idx
        /\ (/\ address_filter = {}
            /\ charger_filter = {}
            /\ availability_filter = {}
            /\ renewable_filter = {}) => df_filtered = df

\* two selections at work, some rows kept and some removed
C5_Witness ==
    /\ Filtered
    /\ address_filter # {}
    /\ renewable_filter # {}
    /\ charger_filter = {}
    /\ df_filtered # <<>>
    /\ Len(df_filtered) < Len(df)
    /\ \E i \in DOMAIN df : df[i].Address \in address_filter /\ ~Selected(df[i])

\* C6: with no row left after filtering the pass shows Total Stations = 0,
\* the placeholders and the warning, and stops: no map, chart, table or
\* download is produced.
C6_EmptyStops ==
    (KpisShown /\ df_filtered = <<>>) =>
        /\ pc = "stopped"
        /\ metrics.col1 = [count |-> 0]
        /\ metrics.col2 = Placeholder
        /\ metrics.col3 = Placeholder
        /\ metrics.col4 = Placeholder
        /\ metrics.col5 = Placeholder
        /\ warning
        /\ rendered = <<>>
        /\ markers = <<>>
        /\ optimal_stations = <<>>
        /\ csv = <<>>

C6_Witness ==
    /\ pc = "stopped"
    /\ df_filtered = <<>>
    /\ df # <<>>
    /\ warning

\* C7: with every usage 0 every usageScore is 0, with every distance 0 the
\* distance ratio is 0 (distanceScore 1), and every Recommendation Score is a
\* defined number.
C7_ZeroMaximumIsGuarded ==
    Scored =>
        /\ ColMax(df, "Usage") = 0 =>
              \A i \in DOMAIN df : usage_score(df)[i] = Zero
        /\ ColMax(df, "Distance") = 0 =>
              \A i \in DOMAIN df : distance_score(df)[i] = One
        /\ NoNaN(df)

\* the usage column multiplied by c
ScaleUsage(frame, c) ==
    [i \in DOMAIN frame |-> [frame[i] EXCEPT !.Usage = c * @]]

\* C8: multiplying every usage by the same positive constant (2 and up: 1
\* changes nothing) leaves every usageScore, Recommendation Score and Optimal
\* flag unchanged.
C8_UsageScaleInvariant ==
    Scored =>
        \A c \in 2..MaxScale :
            LET scaled == ScaleUsage(Raw(df), c)
                rescored == ScoredFrame(scaled)
            IN  /\ usage_score(scaled) = usage_score(df)
                /\ \A i \in DOMAIN df :
                      /\ rescored[i].Score = df[i].Score
                      /\ rescored[i].Optimal = df[i].Optimal

\* three different usage values, none of them 0, and defined scores
C8_Witness ==
    /\ Scored
    /\ NoNaN(df)
    /\ \E i, j \in DOMAIN df : 0 < df[i].Usage /\ df[i].Usage < df[j].Usage
    /\ \E i, j \in DOMAIN df : df[i].Optimal = 1 /\ df[j].Optimal = 0

\* the score of the row is 0.5*u/U + 0.3*(1 - d/D) + 0.2*r for the maxima U
\* and D, in integers; NaN when a maximum is 0
ScoredWith(row, U, D) ==
    LET r == IF row.Renewable = "Yes" THEN 1 ELSE 0
        x == row.Score
    IN  IF U = 0 \/ D = 0 THEN IsNaN(x)
        ELSE /\ x[2] > 0
             /\ x[1] * (10 * U * D) =
                  x[2] * (5 * row.Usage * D + 3 * (D - row.Distance) * U
                            + 2 * r * U * D)

\* when the filters have just been applied, the score and the flag of every
\* row of df are the ones computed over all rows of df
C9_FullScoresAfterFiltering ==
    pc = "kpis" =>
        LET threshold == Quantile(Scores(df), QUANTILE)
            U == ColMax(df, "Usage")
            D == ColMax(df, "Distance")
        IN  \A i \in DOMAIN df :
                /\ df[i].idx = i - 1
                /\ ScoredWith(df[i], U, D)
                /\ df[i].Optimal = OptimalFlag(df[i].Score, threshold)

\* every filtered row is the row of df with its index, derived columns
\* included
C9_FilteredRowsAreRowsOfDf ==
    Filtered =>
        \A p \in DOMAIN df_filtered :
            /\ df_filtered[p].idx + 1 \in DOMAIN df
            /\ df_filtered[p] = df[df_filtered[p].idx + 1]

\* C9: scoring precedes filtering and is not repeated: the filtered rows
\* carry the scores and flags computed over the full data frame, and no step
\* of the pass after scoring changes the data frame.
C9_ScoredOnceBeforeFiltering ==
    /\ []C9_FullScoresAfterFiltering
    /\ []C9_FilteredRowsAreRowsOfDf
    /\ [][pc \notin {"score", "stopped", "done"} => df' = df]_vars

\* a filter removed rows, and scoring the remaining rows alone would give
\* other scores
C9_Witness ==
    /\ pc = "done"
    /\ Len(df_filtered) < Len(df)
    /\ NoNaN(df)
    /\ Scores(ScoredFrame(Raw(df_filtered))) # Scores(df_filtered)

\* C10: with the filtered collection equal to the full data frame and
\* defined scores, every row of the table has Optimal = 1, is labelled
\* "Recommended" on the map, and has a score >= the 75th-percentile threshold.
C10_TableRowsAreOptimal ==
    (TableShown /\ df_filtered = df /\ NoNaN(df)) =>
        LET threshold == Quantile(Scores(df), QUANTILE)
        IN  \A p \in DOMAIN optimal_stations :
            /\ optimal_stations[p].Optimal = 1
            /\ FGe(optimal_stations[p].Score, threshold)
            /\ \E m \in DOMAIN markers :
                  /\ markers[m].idx = optimal_stations[p].idx
                  /\ markers[m].status = "Recommended"
                  /\ markers[m].color = "green"

\* a table of two rows or more, whose last row has exactly the threshold
\* score, beside stations that are not recommended
C10_Witness ==
    /\ TableShown
    /\ df_filtered = df
    /\ NoNaN(df)
    /\ Len(optimal_stations) >= 2
    /\ \E i \in DOMAIN df : df[i].Optimal = 0
    /\ optimal_stations[Len(optimal_stations)].Score
          = Quantile(Scores(df), QUANTILE)

====
